---- MODULE Spec2Model ----
(***************************************************************************)
(* Model of the multi-signature wallet contract                            *)
(* (contracts/multi-sign/src/lib.rs).  The persistent store is three maps  *)
(* (config, transactions, approval sets); every public entry point is one  *)
(* action.  execute_transaction is split at its external call: the part up *)
(* to try_transfer, and the return of try_transfer.  While a transfer is   *)
(* in flight the token contract may call any entry point (nested calls).   *)
(* Every call modelled is one whose caller.require_auth() passed: a call   *)
(* that fails authentication is aborted by the host before the contract    *)
(* reads or writes anything.                                               *)
(***************************************************************************)
EXTENDS Integers, Sequences, FiniteSets, TLC

\* ---------------------------------------------------------------- bounds
\* longest owners list passed to initialize
MaxOwners == 2
\* number of submissions explored
MaxTx == 2

\* ------------------------------------------------------- program constants
Unauthorized == 1
InvalidThreshold == 2
TransactionNotFound == 3
TransactionExecuted == 4
AlreadyApproved == 5
InsufficientApprovals == 6
InvalidOwner == 7
ArithmeticError == 8
DuplicateOwner == 9
AlreadyInitialized == 10
InvalidAmount == 11
TokenTransferFailed == 13
\* 2^16: a u32 is two 16-bit halves, u32::MAX = U32_HALF * U32_HALF - 1
U32_HALF == 65536

\* A u32 is held as the integer that has the same 32 bits when read as a
\* signed word: a value below 2^31 is itself, a value v from 2^31 on is
\* v - 2^32, so that every u32 up to u32::MAX can be written down.
u32_hi(x) == (x \div U32_HALF) % U32_HALF
u32_lo(x) == x % U32_HALF
u32_word(hi, lo) ==
    IF hi < U32_HALF \div 2 THEN hi * U32_HALF + lo
    ELSE (hi - U32_HALF) * U32_HALF + lo
U32_MAX == u32_word(U32_HALF - 1, U32_HALF - 1)

\* ------------------------------------------------------------------ inputs
\* the identities that make calls
Addresses == {1, 2}
OwnerLists == UNION {[1..n -> Addresses] : n \in 0..MaxOwners}
Thresholds == 0..(MaxOwners + 1)
\* the (to, amount, token, data) arguments tried by submit_transaction
Requests ==
    { [to |-> 4, amount |-> 5,  token |-> 6, data |-> 7],
      [to |-> 4, amount |-> 0,  token |-> 6, data |-> 7],
      [to |-> 4, amount |-> -1, token |-> 6, data |-> 7] }
TxIds == 0..(MaxTx + 1)

VARIABLES
    config_store,     \* CONFIG_KEY: <<>> when absent, <<MultisigConfig>> when set
    tx_store,         \* (TX_KEY, id) -> Transaction
    approval_store,   \* (APPROVAL_KEY, id) -> Vec<Address>
    stack,            \* execute_transaction calls waiting inside try_transfer
    call,             \* the last call made and what it returned
    transfers         \* id -> number of transfers that returned success

vars == <<config_store, tx_store, approval_store, stack, call, transfers>>

\* ----------------------------------------------------------------- results
Ok(v) == [kind |-> "ok", v |-> v]
Err(e) == [kind |-> "err", v |-> e]
\* Ok(value) of a query: the value returned travels in a field of its own
OkWith(value) == [kind |-> "ok", v |-> 0, out |-> value]
InTransfer == [kind |-> "in_transfer", v |-> 0]

CallRec(op, res) == [op |-> op, res |-> res]

\* ------------------------------------------------------------------- store
Has(store, k) == k \in DOMAIN store
Put(store, k, v) == [x \in (DOMAIN store) \cup {k} |-> IF x = k THEN v ELSE store[x]]

Contains(vec, a) == \E i \in 1..Len(vec) : vec[i] = a
HasDuplicate(vec) == \E i, j \in 1..Len(vec) : i < j /\ vec[i] = vec[j]

Transaction(to, amount, token, data, executed, approvals, submitter) ==
    [to |-> to, amount |-> amount, token |-> token, data |-> data,
     executed |-> executed, approvals |-> approvals, submitter |-> submitter]

MultisigConfig(owners, required_approvals, transaction_count) ==
    [owners |-> owners, required_approvals |-> required_approvals,
     transaction_count |-> transaction_count]

Init ==
    /\ config_store = <<>>
    /\ tx_store = <<>>
    /\ approval_store = <<>>
    /\ stack = <<>>
    /\ call = CallRec("none", Ok(0))
    /\ transfers = <<>>

HasConfig == config_store # <<>>
Config == config_store[1]

\* ------------------------------------------------------------- initialize
\* variant: the existence check of line 69 left out
initialize_result_reinit(owners, required_approvals) ==
    IF owners = <<>> THEN Err(InvalidOwner)
    ELSE IF required_approvals = 0 \/ required_approvals > Len(owners)
         THEN Err(InvalidThreshold)
    ELSE IF HasDuplicate(owners) THEN Err(DuplicateOwner)
    ELSE Ok(0)

\* variant: the duplicate scan of lines 81-87 left out
initialize_result_no_scan(owners, required_approvals) ==
    IF HasConfig THEN Err(AlreadyInitialized)
    ELSE IF owners = <<>> THEN Err(InvalidOwner)
    ELSE IF required_approvals = 0 \/ required_approvals > Len(owners)
         THEN Err(InvalidThreshold)
    ELSE Ok(0)

\* variant: line 77 without its required_approvals == 0 test
initialize_result_zero(owners, required_approvals) ==
    IF HasConfig THEN Err(AlreadyInitialized)
    ELSE IF owners = <<>> THEN Err(InvalidOwner)
    ELSE IF required_approvals > Len(owners) THEN Err(InvalidThreshold)
    ELSE IF HasDuplicate(owners) THEN Err(DuplicateOwner)
    ELSE Ok(0)

\* variant: line 77 without its upper limit
initialize_result_above(owners, required_approvals) ==
    IF HasConfig THEN Err(AlreadyInitialized)
    ELSE IF owners = <<>> THEN Err(InvalidOwner)
    ELSE IF required_approvals = 0 THEN Err(InvalidThreshold)
    ELSE IF HasDuplicate(owners) THEN Err(DuplicateOwner)
    ELSE Ok(0)

initialize_result(owners, required_approvals) ==
    IF HasConfig THEN Err(AlreadyInitialized)
    ELSE IF owners = <<>> THEN Err(InvalidOwner)
    ELSE IF required_approvals = 0 \/ required_approvals > Len(owners)
         THEN Err(InvalidThreshold)
    ELSE IF HasDuplicate(owners) THEN Err(DuplicateOwner)
    ELSE Ok(0)

initialize(owners, required_approvals) ==
    LET res == initialize_result(owners, required_approvals) IN
    /\ config_store' = IF res.kind = "ok"
                       THEN <<MultisigConfig(owners, required_approvals, 0)>>
                       ELSE config_store
    /\ call' = CallRec("initialize", res)
    /\ UNCHANGED <<tx_store, approval_store, stack, transfers>>

\* ---------------------------------------------------------------- helpers
verify_owner(caller) ==
    IF ~HasConfig THEN Err(Unauthorized)
    ELSE IF ~Contains(Config.owners, caller) THEN Err(Unauthorized)
    ELSE Ok(0)

get_config == IF HasConfig THEN Ok(0) ELSE Err(Unauthorized)

\* variant: line 123 with < in place of <=
validate_transaction_inputs_negative(to, amount, token) ==
    IF amount < 0 THEN Err(InvalidAmount) ELSE Ok(0)

validate_transaction_inputs(to, amount, token) ==
    IF amount <= 0 THEN Err(InvalidAmount) ELSE Ok(0)

\* variant: u32::wrapping_add in place of checked_add
checked_add_wrapping(x, y) ==
    LET lo == u32_lo(x) + u32_lo(y)
        hi == u32_hi(x) + u32_hi(y) + lo \div U32_HALF
    IN Ok(u32_word(hi % U32_HALF, lo % U32_HALF))

\* u32::checked_add: None exactly when x + y > u32::MAX, added half by half
checked_add(x, y) ==
    LET lo == u32_lo(x) + u32_lo(y)
        hi == u32_hi(x) + u32_hi(y) + lo \div U32_HALF
    IN IF hi >= U32_HALF
       THEN Err(ArithmeticError)
       ELSE Ok(u32_word(hi, lo % U32_HALF))

\* ------------------------------------------------------ submit_transaction
\* variant: the amount validated before the owner check
submit_result_amount_first(caller, to, amount, token) ==
    IF validate_transaction_inputs(to, amount, token).kind # "ok"
         THEN validate_transaction_inputs(to, amount, token)
    ELSE IF verify_owner(caller).kind # "ok" THEN verify_owner(caller)
    ELSE IF get_config.kind # "ok" THEN get_config
    ELSE checked_add(Config.transaction_count, 1)

submit_result(caller, to, amount, token) ==
    IF verify_owner(caller).kind # "ok" THEN verify_owner(caller)
    ELSE IF validate_transaction_inputs(to, amount, token).kind # "ok"
         THEN validate_transaction_inputs(to, amount, token)
    ELSE IF get_config.kind # "ok" THEN get_config
    ELSE checked_add(Config.transaction_count, 1)

\* variant: the submitter's own approval not counted
new_transaction_uncounted(caller, to, amount, token, data) ==
    Transaction(to, amount, token, data, FALSE, 0, caller)

\* lines 149-157: the record a submission creates
new_transaction(caller, to, amount, token, data) ==
    Transaction(to, amount, token, data, FALSE, 1, caller)

\* the persistent store as one value
Persistent == [config |-> config_store, tx |-> tx_store, approval |-> approval_store]

\* one storage().persistent().set(key, value)
Write(store, w) ==
    IF w.key = "config" THEN [store EXCEPT !.config = <<w.value>>]
    ELSE IF w.key = "tx" THEN [store EXCEPT !.tx = Put(@, w.id, w.value)]
    ELSE [store EXCEPT !.approval = Put(@, w.id, w.value)]

\* the store after the first k writes of ws
RECURSIVE WriteAll(_, _, _)
WriteAll(store, ws, k) ==
    IF k = 0 THEN store ELSE Write(WriteAll(store, ws, k - 1), ws[k])

\* variant: the record and its approval set written before the counter
submit_writes_record_first(caller, to, amount, token, data, new_count) ==
    << [key |-> "tx", id |-> new_count,
        value |-> new_transaction(caller, to, amount, token, data)],
       [key |-> "approval", id |-> new_count, value |-> <<caller>>],
       [key |-> "config", id |-> 0,
        value |-> [Config EXCEPT !.transaction_count = new_count]] >>

\* lines 159-166: the three writes of a submission, in the order they are made
submit_writes(caller, to, amount, token, data, new_count) ==
    << [key |-> "config", id |-> 0,
        value |-> [Config EXCEPT !.transaction_count = new_count]],
       [key |-> "tx", id |-> new_count,
        value |-> new_transaction(caller, to, amount, token, data)],
       [key |-> "approval", id |-> new_count, value |-> <<caller>>] >>

\* variant: the counter stored as soon as the owner check has passed
submit_transaction_eager(caller, to, amount, token, data) ==
    LET res == submit_result(caller, to, amount, token) IN
    /\ call' = CallRec("submit_transaction", res)
    /\ IF res.kind = "ok"
       THEN LET ws == submit_writes(caller, to, amount, token, data, res.v)
                after == WriteAll(Persistent, ws, Len(ws))
            IN /\ res.v <= MaxTx
               /\ config_store' = after.config
               /\ tx_store' = after.tx
               /\ approval_store' = after.approval
       ELSE /\ config_store' =
                 IF verify_owner(caller).kind = "ok"
                 THEN <<[Config EXCEPT !.transaction_count = @ + 1]>>
                 ELSE config_store
            /\ UNCHANGED <<tx_store, approval_store>>
    /\ UNCHANGED <<stack, transfers>>

submit_transaction(caller, to, amount, token, data) ==
    LET res == submit_result(caller, to, amount, token)
        new_count == res.v
    IN
    /\ res.kind = "ok" => new_count <= MaxTx
    /\ call' = CallRec("submit_transaction", res)
    /\ IF res.kind = "ok"
       THEN LET ws == submit_writes(caller, to, amount, token, data, new_count)
                after == WriteAll(Persistent, ws, Len(ws))
            IN /\ config_store' = after.config
               /\ tx_store' = after.tx
               /\ approval_store' = after.approval
       ELSE UNCHANGED <<config_store, tx_store, approval_store>>
    /\ UNCHANGED <<stack, transfers>>

\* ----------------------------------------------------- approve_transaction
stored_approvals(transaction_id) ==
    IF Has(approval_store, transaction_id) THEN approval_store[transaction_id] ELSE <<>>

\* variant: the membership test of line 197 left out
approve_result_repeat(caller, transaction_id) ==
    IF verify_owner(caller).kind # "ok" THEN verify_owner(caller)
    ELSE IF ~Has(tx_store, transaction_id) THEN Err(TransactionNotFound)
    ELSE IF tx_store[transaction_id].executed THEN Err(TransactionExecuted)
    ELSE IF checked_add(tx_store[transaction_id].approvals, 1).kind # "ok"
         THEN checked_add(tx_store[transaction_id].approvals, 1)
    ELSE Ok(0)

\* variant: the executed test of line 189 left out
approve_result_late(caller, transaction_id) ==
    IF verify_owner(caller).kind # "ok" THEN verify_owner(caller)
    ELSE IF ~Has(tx_store, transaction_id) THEN Err(TransactionNotFound)
    ELSE IF Contains(stored_approvals(transaction_id), caller) THEN Err(AlreadyApproved)
    ELSE IF checked_add(tx_store[transaction_id].approvals, 1).kind # "ok"
         THEN checked_add(tx_store[transaction_id].approvals, 1)
    ELSE Ok(0)

\* variant: line 197 compares the caller with the submitter only
approve_result_submitter(caller, transaction_id) ==
    IF verify_owner(caller).kind # "ok" THEN verify_owner(caller)
    ELSE IF ~Has(tx_store, transaction_id) THEN Err(TransactionNotFound)
    ELSE IF tx_store[transaction_id].executed THEN Err(TransactionExecuted)
    ELSE IF tx_store[transaction_id].submitter = caller THEN Err(AlreadyApproved)
    ELSE IF checked_add(tx_store[transaction_id].approvals, 1).kind # "ok"
         THEN checked_add(tx_store[transaction_id].approvals, 1)
    ELSE Ok(0)

\* variant: the membership test of line 197 made before the executed test of line 189
approve_result_swapped(caller, transaction_id) ==
    IF verify_owner(caller).kind # "ok" THEN verify_owner(caller)
    ELSE IF ~Has(tx_store, transaction_id) THEN Err(TransactionNotFound)
    ELSE IF Contains(stored_approvals(transaction_id), caller) THEN Err(AlreadyApproved)
    ELSE IF tx_store[transaction_id].executed THEN Err(TransactionExecuted)
    ELSE IF checked_add(tx_store[transaction_id].approvals, 1).kind # "ok"
         THEN checked_add(tx_store[transaction_id].approvals, 1)
    ELSE Ok(0)

approve_result(caller, transaction_id) ==
    IF verify_owner(caller).kind # "ok" THEN verify_owner(caller)
    ELSE IF ~Has(tx_store, transaction_id) THEN Err(TransactionNotFound)
    ELSE IF tx_store[transaction_id].executed THEN Err(TransactionExecuted)
    ELSE IF Contains(stored_approvals(transaction_id), caller) THEN Err(AlreadyApproved)
    ELSE IF checked_add(tx_store[transaction_id].approvals, 1).kind # "ok"
         THEN checked_add(tx_store[transaction_id].approvals, 1)
    ELSE Ok(0)

\* variant: the caller pushed onto a fresh vector
push_back_fresh(approvals, caller) == <<caller>>

\* line 207
push_back(approvals, caller) == Append(approvals, caller)

approve_transaction(caller, transaction_id) ==
    LET res == approve_result(caller, transaction_id) IN
    /\ call' = CallRec("approve_transaction", res)
    /\ IF res.kind = "ok"
       THEN LET transaction == tx_store[transaction_id]
                new_approvals == checked_add(transaction.approvals, 1).v
            IN /\ tx_store' = Put(tx_store, transaction_id,
                                  [transaction EXCEPT !.approvals = new_approvals])
               /\ approval_store' = Put(approval_store, transaction_id,
                                        push_back(stored_approvals(transaction_id), caller))
       ELSE UNCHANGED <<tx_store, approval_store>>
    /\ UNCHANGED <<config_store, stack, transfers>>

\* ----------------------------------------------------- execute_transaction
\* variant: the executed test of line 230 left out
execute_result_again(caller, transaction_id) ==
    IF verify_owner(caller).kind # "ok" THEN verify_owner(caller)
    ELSE IF ~Has(tx_store, transaction_id) THEN Err(TransactionNotFound)
    ELSE IF get_config.kind # "ok" THEN get_config
    ELSE IF tx_store[transaction_id].approvals < Config.required_approvals
         THEN Err(InsufficientApprovals)
    ELSE InTransfer

\* variant: the threshold test of line 236 left out
execute_result_no_quorum(caller, transaction_id) ==
    IF verify_owner(caller).kind # "ok" THEN verify_owner(caller)
    ELSE IF ~Has(tx_store, transaction_id) THEN Err(TransactionNotFound)
    ELSE IF tx_store[transaction_id].executed THEN Err(TransactionExecuted)
    ELSE IF get_config.kind # "ok" THEN get_config
    ELSE InTransfer

\* variant: line 236 off by one
execute_result_off_by_one(caller, transaction_id) ==
    IF verify_owner(caller).kind # "ok" THEN verify_owner(caller)
    ELSE IF ~Has(tx_store, transaction_id) THEN Err(TransactionNotFound)
    ELSE IF tx_store[transaction_id].executed THEN Err(TransactionExecuted)
    ELSE IF get_config.kind # "ok" THEN get_config
    ELSE IF tx_store[transaction_id].approvals + 1 < Config.required_approvals
         THEN Err(InsufficientApprovals)
    ELSE InTransfer

execute_result(caller, transaction_id) ==
    IF verify_owner(caller).kind # "ok" THEN verify_owner(caller)
    ELSE IF ~Has(tx_store, transaction_id) THEN Err(TransactionNotFound)
    ELSE IF tx_store[transaction_id].executed THEN Err(TransactionExecuted)
    ELSE IF get_config.kind # "ok" THEN get_config
    ELSE IF tx_store[transaction_id].approvals < Config.required_approvals
         THEN Err(InsufficientApprovals)
    ELSE InTransfer

\* variant: executed set only after the transfer
execute_commit_late(transaction) == transaction

\* the local `transaction` after line 240, which line 241 persists
execute_commit(transaction) == [transaction EXCEPT !.executed = TRUE]

\* variant: the failure branch also clears the approval count
execute_rollback_burn(transaction) ==
    [transaction EXCEPT !.executed = FALSE, !.approvals = 0]

\* variant: the failure branch persists the record without resetting executed
execute_rollback_kept(transaction) == transaction

\* the local `transaction` after line 259, which line 260 persists
execute_rollback(transaction) == [transaction EXCEPT !.executed = FALSE]

Frame(transaction_id, transaction) ==
    [transaction_id |-> transaction_id, transaction |-> transaction,
     before |-> [transaction |-> tx_store[transaction_id],
                 approvals |-> stored_approvals(transaction_id)]]

\* lines 223-250: the checks, the write of executed = true, the call of try_transfer
execute_transaction(caller, transaction_id) ==
    LET res == execute_result(caller, transaction_id) IN
    /\ call' = CallRec("execute_transaction", res)
    /\ IF res.kind = "in_transfer"
       THEN LET transaction == execute_commit(tx_store[transaction_id]) IN
            /\ tx_store' = Put(tx_store, transaction_id, transaction)
            /\ stack' = Append(stack, Frame(transaction_id, transaction))
       ELSE UNCHANGED <<tx_store, stack>>
    /\ UNCHANGED <<config_store, approval_store, transfers>>

TransferCount(transaction_id) ==
    IF Has(transfers, transaction_id) THEN transfers[transaction_id] ELSE 0

\* lines 251-263: try_transfer returns to the innermost waiting call
transfer_return(ok) ==
    /\ stack # <<>>
    /\ LET frame == stack[Len(stack)] IN
       /\ stack' = SubSeq(stack, 1, Len(stack) - 1)
       /\ IF ok
          THEN /\ transfers' = Put(transfers, frame.transaction_id,
                                   TransferCount(frame.transaction_id) + 1)
               /\ call' = CallRec("execute_transaction", Ok(0))
               /\ UNCHANGED tx_store
          ELSE /\ tx_store' = Put(tx_store, frame.transaction_id,
                                  execute_rollback(frame.transaction))
               /\ call' = CallRec("execute_transaction", Err(TokenTransferFailed))
               /\ UNCHANGED transfers
    /\ UNCHANGED <<config_store, approval_store>>

\* ------------------------------------------------------------------ queries
\* lines 268-277; the value returned is a function of the store alone
get_transaction_result(caller, transaction_id) ==
    IF verify_owner(caller).kind # "ok" THEN verify_owner(caller)
    ELSE IF ~Has(tx_store, transaction_id) THEN Err(TransactionNotFound)
    ELSE OkWith(tx_store[transaction_id])

get_transaction(caller, transaction_id) ==
    /\ call' = CallRec("get_transaction", get_transaction_result(caller, transaction_id))
    /\ UNCHANGED <<config_store, tx_store, approval_store, stack, transfers>>

\* variant: the absent set read as in line 195 of approve_transaction
get_approvals_result_default(caller, transaction_id) ==
    IF verify_owner(caller).kind # "ok" THEN verify_owner(caller)
    ELSE OkWith(stored_approvals(transaction_id))

\* lines 284-293
get_approvals_result(caller, transaction_id) ==
    IF verify_owner(caller).kind # "ok" THEN verify_owner(caller)
    ELSE IF ~Has(approval_store, transaction_id) THEN Err(TransactionNotFound)
    ELSE OkWith(approval_store[transaction_id])

get_approvals(caller, transaction_id) ==
    /\ call' = CallRec("get_approvals", get_approvals_result(caller, transaction_id))
    /\ UNCHANGED <<config_store, tx_store, approval_store, stack, transfers>>

\* lines 279-282
is_owner_result(address) ==
    IF get_config.kind # "ok" THEN get_config
    ELSE OkWith(Contains(Config.owners, address))

is_owner(address) ==
    /\ call' = CallRec("is_owner", is_owner_result(address))
    /\ UNCHANGED <<config_store, tx_store, approval_store, stack, transfers>>

\* ------------------------------------------- the simpler contract variant
\* contracts/contracts/multisign/src/lib.rs.  Each entry point is a function
\* from the store it finds and its arguments to its result and the store it
\* leaves; the caller is env.invoker().
simple_Transaction(to, amount, data, executed, approvals) ==
    [to |-> to, amount |-> amount, data |-> data,
     executed |-> executed, approvals |-> approvals]

\* panic!: the host aborts the call and discards its writes
Panic == [kind |-> "panic", v |-> 0]

simple_initialize_result(store, owners, required_approvals) ==
    IF store.config # <<>> THEN Panic
    ELSE IF owners = <<>> THEN Err(InvalidOwner)
    ELSE IF required_approvals = 0 \/ required_approvals > Len(owners)
         THEN Err(InvalidThreshold)
    ELSE IF HasDuplicate(owners) THEN Err(DuplicateOwner)
    ELSE Ok(0)

simple_initialize(store, owners, required_approvals) ==
    LET res == simple_initialize_result(store, owners, required_approvals) IN
    [res |-> res,
     store |-> IF res.kind = "ok"
               THEN Write(store, [key |-> "config", id |-> 0,
                                  value |-> MultisigConfig(owners, required_approvals, 0)])
               ELSE store]

\* variant: the membership test of lines 89-91 left out
simple_only_owner_open(store, invoker) ==
    IF store.config = <<>> THEN Err(Unauthorized) ELSE Ok(0)

simple_only_owner(store, invoker) ==
    IF store.config = <<>> THEN Err(Unauthorized)
    ELSE IF ~Contains(store.config[1].owners, invoker) THEN Err(Unauthorized)
    ELSE Ok(0)

simple_get_config(store) ==
    IF store.config = <<>> THEN Err(Unauthorized) ELSE Ok(0)

simple_submit_result(store, invoker) ==
    IF simple_only_owner(store, invoker).kind # "ok" THEN simple_only_owner(store, invoker)
    ELSE IF simple_get_config(store).kind # "ok" THEN simple_get_config(store)
    ELSE checked_add(store.config[1].transaction_count, 1)

simple_submit_transaction(store, invoker, to, amount, data) ==
    LET res == simple_submit_result(store, invoker)
        new_count == res.v
        ws == << [key |-> "config", id |-> 0,
                  value |-> [store.config[1] EXCEPT !.transaction_count = new_count]],
                 [key |-> "tx", id |-> new_count,
                  value |-> simple_Transaction(to, amount, data, FALSE, 1)],
                 [key |-> "approval", id |-> new_count, value |-> <<invoker>>] >>
    IN [res |-> res,
        store |-> IF res.kind = "ok" THEN WriteAll(store, ws, Len(ws)) ELSE store]

simple_approve_result(store, invoker, transaction_id) ==
    IF simple_only_owner(store, invoker).kind # "ok" THEN simple_only_owner(store, invoker)
    ELSE IF ~Has(store.tx, transaction_id) THEN Err(TransactionNotFound)
    ELSE IF store.tx[transaction_id].executed THEN Err(TransactionExecuted)
    ELSE IF Contains(IF Has(store.approval, transaction_id)
                     THEN store.approval[transaction_id] ELSE <<>>, invoker)
         THEN Err(AlreadyApproved)
    ELSE IF checked_add(store.tx[transaction_id].approvals, 1).kind # "ok"
         THEN checked_add(store.tx[transaction_id].approvals, 1)
    ELSE Ok(0)

simple_approve_transaction(store, invoker, transaction_id) ==
    LET res == simple_approve_result(store, invoker, transaction_id)
        transaction == store.tx[transaction_id]
        approvals == IF Has(store.approval, transaction_id)
                     THEN store.approval[transaction_id] ELSE <<>>
        ws == << [key |-> "tx", id |-> transaction_id,
                  value |-> [transaction EXCEPT
                                !.approvals = checked_add(transaction.approvals, 1).v]],
                 [key |-> "approval", id |-> transaction_id,
                  value |-> Append(approvals, invoker)] >>
    IN [res |-> res,
        store |-> IF res.kind = "ok" THEN WriteAll(store, ws, Len(ws)) ELSE store]

Next ==
    \/ \E owners \in OwnerLists, t \in Thresholds : initialize(owners, t)
    \/ \E caller \in Addresses, r \in Requests :
          submit_transaction(caller, r.to, r.amount, r.token, r.data)
    \/ \E caller \in Addresses, id \in TxIds :
          approve_transaction(caller, id)
    \/ \E caller \in Addresses, id \in TxIds :
          execute_transaction(caller, id)
    \/ \E ok \in BOOLEAN : transfer_return(ok)
    \/ \E caller \in Addresses, id \in TxIds : get_transaction(caller, id)
    \/ \E caller \in Addresses, id \in TxIds : get_approvals(caller, id)
    \/ \E address \in Addresses : is_owner(address)

Spec == Init /\ [][Next]_vars

\* an owner's execute_transaction on id reaches the external transfer
ExecuteStart(id) ==
    \E caller \in Addresses : execute_transaction(caller, id) /\ stack' # stack

\* the transfer in progress is the one of id and it returns Ok
TransferSucceeds(id) ==
    /\ stack # <<>>
    /\ stack[Len(stack)].transaction_id = id
    /\ transfer_return(TRUE)

\* the behaviours in which owners keep retrying execute_transaction, every
\* external transfer returns, and a transfer offered again and again
\* eventually succeeds
SpecLive ==
    /\ Init /\ [][Next]_vars
    /\ WF_vars(\E ok \in BOOLEAN : transfer_return(ok))
    /\ \A id \in 1..MaxTx : WF_vars(ExecuteStart(id)) /\ SF_vars(TransferSucceeds(id))

\* ------------------------------------------------------------ vocabulary
Store == <<config_store, tx_store, approval_store>>
IsOwner(a) == HasConfig /\ Contains(Config.owners, a)
InFlight(id) == \E i \in 1..Len(stack) : stack[i].transaction_id = id
Returned(op, res) == call = CallRec(op, res)
ValidInit(owners, t) ==
    /\ owners # <<>>
    /\ ~HasDuplicate(owners)
    /\ 1 <= t /\ t <= Len(owners)

\* ------------------------------------------------------------------ C1
\* C1: for every transaction id the external transfer returns success at
\* most once, whatever calls are made, retried or nested inside a transfer.
C1_NoDoubleExecution ==
    \A id \in DOMAIN transfers : transfers[id] <= 1

\* a transfer has succeeded for some id and a further execute_transaction was
\* then attempted and turned away
C1_Witness ==
    /\ \E id \in DOMAIN transfers : transfers[id] = 1
    /\ Returned("execute_transaction", Err(TransactionExecuted))

\* ------------------------------------------------------------------ C2
C2_Quorum ==
    \A id \in DOMAIN tx_store :
        tx_store[id].executed =>
            LET set == stored_approvals(id) IN
            /\ Len(set) >= Config.required_approvals
            /\ ~HasDuplicate(set)
            /\ \A i \in 1..Len(set) : IsOwner(set[i])

C2_Invoke ==
    Len(stack') > Len(stack) =>
    \A caller \in Addresses, id \in TxIds :
        (execute_transaction(caller, id) /\ Len(stack') > Len(stack)) =>
            /\ IsOwner(caller)
            /\ tx_store[id].approvals >= Config.required_approvals

C2_InvokeOnlyByExecute ==
    Len(stack') > Len(stack) =>
        \E caller \in Addresses, id \in TxIds : execute_transaction(caller, id)

\* C2: the transfer is entered only by an execute_transaction call of an owner
\* on a transaction whose approvals have reached required_approvals, and every
\* transaction with executed = true has an approval set of at least
\* required_approvals pairwise-distinct owners.
C2_NoUnauthorizedRelease ==
    /\ []C2_Quorum
    /\ [][C2_Invoke /\ C2_InvokeOnlyByExecute]_vars

\* a transaction executed under a threshold of two
C2_Witness ==
    /\ HasConfig /\ Config.required_approvals = 2
    /\ \E id \in DOMAIN tx_store :
          tx_store[id].executed /\ TransferCount(id) = 1

\* ------------------------------------------------------------------ C3
\* C3: for every stored transaction the approval set has exactly
\* Transaction.approvals entries, they are pairwise distinct, and approvals
\* does not exceed the number of owners; this holds between calls and while a
\* transfer is in flight.
C3_ApprovalSetInvariant ==
    \A id \in DOMAIN tx_store :
        /\ Has(approval_store, id)
        /\ Len(approval_store[id]) = tx_store[id].approvals
        /\ ~HasDuplicate(approval_store[id])
        /\ tx_store[id].approvals <= Len(Config.owners)

\* a transfer is in flight for a transaction that two owners approved
C3_Witness ==
    \E id \in DOMAIN tx_store :
        InFlight(id) /\ tx_store[id].approvals = 2 /\ Len(approval_store[id]) = 2

\* ------------------------------------------------------------------ C4
C4_Step ==
    \A id \in TxIds :
        (transfer_return(FALSE) /\ stack[Len(stack)].transaction_id = id) =>
            /\ call' = CallRec("execute_transaction", Err(TokenTransferFailed))
            /\ tx_store'[id] = stack[Len(stack)].before.transaction
            /\ tx_store'[id].executed = FALSE
            /\ stored_approvals(id)' = stack[Len(stack)].before.approvals
            /\ \A caller \in Addresses :
                  execute_result(caller, id)' # Err(TransactionExecuted)

\* C4: when the transfer of an execute_transaction call fails, the call
\* returns TokenTransferFailed and the transaction is stored exactly as it was
\* before the call (executed = false, same approvals and approval set), so a
\* later execute_transaction is not turned away with TransactionExecuted.
C4_RollbackOnFailure == [][C4_Step]_vars

\* a call has just returned TokenTransferFailed and its transaction is
\* executable again
C4_Witness ==
    /\ Returned("execute_transaction", Err(TokenTransferFailed))
    /\ \E id \in DOMAIN tx_store :
          /\ ~tx_store[id].executed
          /\ tx_store[id].approvals >= Config.required_approvals
          /\ TransferCount(id) = 0

\* ------------------------------------------------------------------ C5
C5_Persisted ==
    \A i \in 1..Len(stack) : tx_store[stack[i].transaction_id].executed

C5_Nested ==
    (stack # <<>> /\ call'.op \in {"approve_transaction", "execute_transaction"}) =>
    \A caller \in Addresses, id \in TxIds :
        ( /\ InFlight(id)
          /\ IsOwner(caller)
          /\ approve_transaction(caller, id) \/ execute_transaction(caller, id) )
        => /\ call'.res = Err(TransactionExecuted)
           /\ UNCHANGED <<Store, stack, transfers>>

\* C5: while a transfer for id is in flight the stored record has executed =
\* true, and an approve_transaction or execute_transaction call by an owner on
\* that id returns TransactionExecuted, starts no transfer and changes nothing.
C5_ReentrancyRejected == []C5_Persisted /\ [][C5_Nested]_vars

\* an approval arrived while the only executed transaction was in flight, and
\* was turned away
C5_Witness ==
    /\ stack # <<>>
    /\ Returned("approve_transaction", Err(TransactionExecuted))
    /\ \A id \in DOMAIN tx_store : tx_store[id].executed => InFlight(id)

\* ------------------------------------------------------------------ C6
C6_Frozen ==
    \A id \in DOMAIN tx_store :
        TransferCount(id) >= 1 =>
            /\ tx_store'[id] = tx_store[id]
            /\ tx_store[id].executed
            /\ approval_store'[id] = approval_store[id]

C6_Flips ==
    \A id \in DOMAIN tx_store :
        /\ (~tx_store[id].executed /\ tx_store'[id].executed) =>
              \E caller \in Addresses : execute_transaction(caller, id)
        /\ (tx_store[id].executed /\ ~tx_store'[id].executed) =>
              /\ transfer_return(FALSE)
              /\ stack[Len(stack)].transaction_id = id

C6_Created ==
    \A id \in (DOMAIN tx_store') \ (DOMAIN tx_store) : ~tx_store'[id].executed

\* C6: once execute_transaction has returned success for id, its record and
\* approval set never change again; a record is created with executed = false,
\* executed becomes true only in execute_transaction and false again only in
\* the failure branch of that call.
C6_ExecutedIsTerminal == [][C6_Frozen /\ C6_Flips /\ C6_Created]_vars

\* an executed transaction that one owner had not approved, and whose approval
\* was then attempted
C6_Witness ==
    /\ stack = <<>>
    /\ Returned("approve_transaction", Err(TransactionExecuted))
    /\ \E id \in DOMAIN tx_store :
          /\ TransferCount(id) = 1
          /\ tx_store[id].approvals < Len(Config.owners)

\* ------------------------------------------------------------------ C7
C7_Step ==
    call'.op = "initialize" =>
        IF HasConfig
        THEN /\ call'.res = Err(AlreadyInitialized)
             /\ config_store' = config_store
        ELSE \A owners \in OwnerLists, t \in Thresholds :
                (ValidInit(owners, t) /\ initialize(owners, t)) =>
                    /\ call'.res = Ok(0)
                    /\ config_store' = <<MultisigConfig(owners, t, 0)>>

\* C7: on a contract without a config, initialize with non-empty distinct
\* owners and 1 <= t <= |owners| succeeds; once a config exists every
\* initialize fails with AlreadyInitialized and leaves the config as it is.
C7_InitializeOnce == [][C7_Step]_vars

\* a second initialize was turned away after transactions were submitted
C7_Witness ==
    /\ Returned("initialize", Err(AlreadyInitialized))
    /\ HasConfig /\ Config.transaction_count > 0

\* ------------------------------------------------------------------ C8
C8_OriginalStep ==
    (call'.op = "initialize" /\ ~HasConfig) =>
    \A owners \in OwnerLists, t \in Thresholds :
        (~HasConfig /\ HasDuplicate(owners) /\ initialize(owners, t)) =>
            /\ call'.res = Err(DuplicateOwner)
            /\ config_store' = <<>>

\* C8 as stated: a repeated identity gives DuplicateOwner for every threshold.
C8_DuplicateOwnerAnyThreshold == [][C8_OriginalStep]_vars

C8_AmendedStep ==
    (call'.op = "initialize" /\ ~HasConfig) =>
    \A owners \in OwnerLists, t \in Thresholds :
        (~HasConfig /\ HasDuplicate(owners) /\ initialize(owners, t)) =>
            /\ call'.res = IF t = 0 \/ t > Len(owners)
                           THEN Err(InvalidThreshold)
                           ELSE Err(DuplicateOwner)
            /\ config_store' = <<>>

\* C8 amended: on a contract without a config, initialize with a repeated
\* identity fails with DuplicateOwner when 1 <= t <= |owners| and with
\* InvalidThreshold when t = 0 or t > |owners|; no config is stored.
C8_DuplicateOwner == [][C8_AmendedStep]_vars

\* initialize has just returned DuplicateOwner and there is still no config
C8_Witness ==
    /\ Returned("initialize", Err(DuplicateOwner))
    /\ ~HasConfig

\* ------------------------------------------------------------------ C9
C9_Step ==
    (call'.op = "initialize" /\ ~HasConfig) =>
    \A owners \in OwnerLists, t \in Thresholds :
        (~HasConfig /\ initialize(owners, t)) =>
            /\ owners = <<>> =>
                  call'.res = Err(InvalidOwner) /\ config_store' = <<>>
            /\ (owners # <<>> /\ ~HasDuplicate(owners) /\ (t = 0 \/ t > Len(owners))) =>
                  call'.res = Err(InvalidThreshold) /\ config_store' = <<>>
            /\ ValidInit(owners, t) => call'.res = Ok(0) /\ HasConfig'

\* C9: on a contract without a config, initialize with no owners fails with
\* InvalidOwner for every t, and with distinct owners and t = 0 or t > |owners|
\* fails with InvalidThreshold; neither stores a config, and a valid initialize
\* on a contract without a config succeeds.
C9_InitializeRejects == [][C9_Step]_vars

\* initialize with an empty owners list has just been turned away
C9_Witness ==
    /\ Returned("initialize", Err(InvalidOwner))
    /\ ~HasConfig

\* ----------------------------------------------------------------- C10
C10_Step ==
    call'.op = "submit_transaction" =>
    \A caller \in Addresses, r \in Requests :
        ( /\ IsOwner(caller)
          /\ r.amount > 0
          /\ submit_transaction(caller, r.to, r.amount, r.token, r.data) )
        => LET id == Config.transaction_count + 1 IN
           /\ call'.res = Ok(id)
           /\ Config'.transaction_count = id
           /\ Config'.owners = Config.owners
           /\ Config'.required_approvals = Config.required_approvals
           /\ tx_store'[id] = Transaction(r.to, r.amount, r.token, r.data, FALSE, 1, caller)
           /\ approval_store'[id] = <<caller>>

\* C10: a submit_transaction by an owner with amount > 0 returns the previous
\* transaction_count plus one, stores that value as the new transaction_count
\* and stores under it the given to, amount, token and data with submitter =
\* caller, executed = false, approvals = 1 and the approval set <<caller>>.
C10_SubmitPostcondition == [][C10_Step]_vars

\* the second submission has just returned id 2
C10_Witness ==
    /\ Returned("submit_transaction", Ok(2))
    /\ Config.transaction_count = 2
    /\ tx_store[2].approvals = 1 /\ ~tx_store[2].executed
    /\ approval_store[2] = <<tx_store[2].submitter>>

\* ------------------------------------------------------------------ C11
\* C11: submit_transaction by an owner with amount <= 0 returns InvalidAmount
\* and changes nothing (the counter is not incremented, no record and no
\* approval set is created); every stored transaction has amount > 0.
C11_Positive ==
    \A id \in DOMAIN tx_store : tx_store[id].amount > 0

C11_Step ==
    call'.op = "submit_transaction" =>
        \A caller \in Addresses, r \in Requests :
            ( /\ IsOwner(caller)
              /\ r.amount <= 0
              /\ submit_transaction(caller, r.to, r.amount, r.token, r.data) )
            => /\ call'.res = Err(InvalidAmount)
               /\ UNCHANGED <<Store, stack, transfers>>

C11_InvalidAmount == []C11_Positive /\ [][C11_Step]_vars

\* one submission has been stored and a later one with a bad amount was
\* turned away, the counter still at 1
C11_Witness ==
    /\ Returned("submit_transaction", Err(InvalidAmount))
    /\ HasConfig
    /\ Config.transaction_count = 1
    /\ DOMAIN tx_store = {1}

\* ------------------------------------------------------------------ C12
\* C12: approve_transaction by an owner not yet in the approval set of an
\* existing, not executed transaction succeeds, raises that transaction's
\* approvals by exactly 1, appends the caller to its approval set and changes
\* nothing else; approvals never decrease on any step.
C12_Step ==
    call'.op = "approve_transaction" =>
        \A caller \in Addresses, id \in TxIds :
            ( /\ IsOwner(caller)
              /\ Has(tx_store, id)
              /\ ~tx_store[id].executed
              /\ ~Contains(stored_approvals(id), caller)
              /\ approve_transaction(caller, id) )
            => /\ call'.res = Ok(0)
               /\ tx_store' = [tx_store EXCEPT ![id].approvals = @ + 1]
               /\ Has(approval_store, id)
               /\ approval_store' = [approval_store EXCEPT ![id] = Append(@, caller)]
               /\ UNCHANGED <<config_store, stack, transfers>>

C12_Monotone ==
    \A id \in DOMAIN tx_store :
        /\ id \in DOMAIN tx_store'
        /\ tx_store'[id].approvals >= tx_store[id].approvals

C12_ApproveEffect == [][C12_Step /\ C12_Monotone]_vars

\* of two stored transactions the second has just received its second
\* approval while the first still has only its submitter's
C12_Witness ==
    /\ Returned("approve_transaction", Ok(0))
    /\ DOMAIN tx_store = {1, 2}
    /\ tx_store[1].approvals = 1 /\ Len(approval_store[1]) = 1
    /\ tx_store[2].approvals = 2 /\ Len(approval_store[2]) = 2

\* ------------------------------------------------------------------ C13
\* C13: approve_transaction on a not executed transaction by an identity
\* already in its approval set, the submitter included, returns
\* AlreadyApproved and leaves the approvals and the approval set unchanged.
C13_Step ==
    call'.op = "approve_transaction" =>
        \A caller \in Addresses, id \in TxIds :
            ( /\ Has(tx_store, id)
              /\ ~tx_store[id].executed
              /\ Contains(stored_approvals(id), caller)
              /\ approve_transaction(caller, id) )
            => /\ call'.res = Err(AlreadyApproved)
               /\ UNCHANGED <<Store, stack, transfers>>

C13_DuplicateApproval == [][C13_Step]_vars

\* a second approval was turned away although two owners exist and one
\* transaction already holds both approvals
C13_Witness ==
    /\ Returned("approve_transaction", Err(AlreadyApproved))
    /\ HasConfig /\ Len(Config.owners) = 2
    /\ \E id \in DOMAIN tx_store :
          ~tx_store[id].executed /\ tx_store[id].approvals = 2

\* ------------------------------------------------------------------ C14
\* C14: for an owner, approve_transaction and execute_transaction return
\* TransactionNotFound on an id without a record and TransactionExecuted on an
\* id whose record has executed = true, whatever its approvals; the state is
\* unchanged in both cases.
C14_Step ==
    call'.op \in {"approve_transaction", "execute_transaction"} =>
        \A caller \in Addresses, id \in TxIds :
            ( /\ IsOwner(caller)
              /\ Has(tx_store, id) => tx_store[id].executed
              /\ \/ call'.op = "approve_transaction" /\ approve_transaction(caller, id)
                 \/ call'.op = "execute_transaction" /\ execute_transaction(caller, id) )
            => /\ call'.res = IF Has(tx_store, id) THEN Err(TransactionExecuted)
                                                   ELSE Err(TransactionNotFound)
               /\ UNCHANGED <<Store, stack, transfers>>

C14_NotFoundOrExecuted == [][C14_Step]_vars

\* an approval was turned away as TransactionExecuted while every stored
\* transaction is executed and already approved by every owner
C14_Witness ==
    /\ Returned("approve_transaction", Err(TransactionExecuted))
    /\ stack = <<>>
    /\ tx_store # <<>>
    /\ \A id \in DOMAIN tx_store :
          tx_store[id].executed /\ tx_store[id].approvals = Len(Config.owners)

\* ------------------------------------------------------------------ C15
\* C15: execute_transaction by an owner on an existing, not executed
\* transaction with approvals < required_approvals returns
\* InsufficientApprovals, starts no transfer and changes no state.
C15_Step ==
    call'.op = "execute_transaction" =>
        \A caller \in Addresses, id \in TxIds :
            ( /\ IsOwner(caller)
              /\ Has(tx_store, id)
              /\ ~tx_store[id].executed
              /\ tx_store[id].approvals < Config.required_approvals
              /\ execute_transaction(caller, id) )
            => /\ call'.res = Err(InsufficientApprovals)
               /\ UNCHANGED <<Store, stack, transfers>>

C15_InsufficientApprovals == [][C15_Step]_vars

C15_Witness ==
    /\ Returned("execute_transaction", Err(InsufficientApprovals))
    /\ stack = <<>>
    /\ \E id \in DOMAIN tx_store :
          /\ ~tx_store[id].executed
          /\ tx_store[id].approvals < Config.required_approvals
          /\ TransferCount(id) = 0

\* ------------------------------------------------------------------ C16
\* C16: submit_transaction, approve_transaction, execute_transaction,
\* get_transaction and get_approvals called by an address that is not an
\* owner (any address while no config exists) return Unauthorized, whatever
\* the other arguments, and change no state and start no transfer.
C16_Gated ==
    {"submit_transaction", "approve_transaction", "execute_transaction",
     "get_transaction", "get_approvals"}

\* C16_State makes every result of a non-owner an error, so only the steps
\* that return an error can be a non-owner's
C16_Step ==
    (call'.op \in C16_Gated /\ call'.res.kind = "err") =>
        \A caller \in Addresses :
            ( /\ ~IsOwner(caller)
              /\ \/ \E r \in Requests :
                        submit_transaction(caller, r.to, r.amount, r.token, r.data)
                 \/ \E id \in TxIds :
                        \/ approve_transaction(caller, id)
                        \/ execute_transaction(caller, id)
                        \/ get_transaction(caller, id)
                        \/ get_approvals(caller, id) )
            => /\ call'.res = Err(Unauthorized)
               /\ UNCHANGED <<Store, stack, transfers>>

C16_State ==
    \A caller \in Addresses :
        ~IsOwner(caller) =>
            /\ \A r \in Requests :
                  submit_result(caller, r.to, r.amount, r.token) = Err(Unauthorized)
            /\ \A id \in TxIds :
                  /\ approve_result(caller, id) = Err(Unauthorized)
                  /\ execute_result(caller, id) = Err(Unauthorized)
                  /\ get_transaction_result(caller, id) = Err(Unauthorized)
                  /\ get_approvals_result(caller, id) = Err(Unauthorized)

C16_NonOwnerUnauthorized == []C16_State /\ [][C16_Step]_vars

\* a query by the one address that is not an owner was turned away while a
\* transaction is stored
C16_Witness ==
    /\ Returned("get_approvals", Err(Unauthorized))
    /\ HasConfig /\ Len(Config.owners) = 1
    /\ tx_store # <<>>

\* ------------------------------------------------------------------ C17
\* C17: a call that returns an error leaves config, transaction records and
\* approval sets as they were when it began.  For every error but
\* TokenTransferFailed the step writes nothing.  The one write made before
\* the transfer is the executed flag of the transaction, and the
\* TokenTransferFailed return puts back the record read at the start.
C17_Start ==
    call'.res.kind = "in_transfer" =>
        /\ Len(stack') = Len(stack) + 1
        /\ SubSeq(stack', 1, Len(stack)) = stack
        /\ \A id \in TxIds :
              stack'[Len(stack')].transaction_id = id =>
                  /\ Has(tx_store, id)
                  /\ stack'[Len(stack')].before.transaction = tx_store[id]
                  /\ stack'[Len(stack')].before.approvals = stored_approvals(id)
                  /\ tx_store' = [tx_store EXCEPT ![id].executed = TRUE]
        /\ UNCHANGED <<config_store, approval_store, transfers>>

C17_Failed ==
    call'.res.kind = "err" =>
        IF call'.op = "execute_transaction" /\ call'.res.v = TokenTransferFailed
        THEN /\ stack # <<>>
             /\ stack' = SubSeq(stack, 1, Len(stack) - 1)
             /\ tx_store' = [tx_store EXCEPT ![stack[Len(stack)].transaction_id] =
                                stack[Len(stack)].before.transaction]
             /\ stored_approvals(stack[Len(stack)].transaction_id) =
                    stack[Len(stack)].before.approvals
             /\ UNCHANGED <<config_store, approval_store, transfers>>
        ELSE UNCHANGED <<Store, stack, transfers>>

C17_FailedCallsAtomic == [][C17_Start /\ C17_Failed]_vars

\* a transfer nested in another one has failed and was undone while the outer
\* transfer is still in progress
C17_Witness ==
    /\ Returned("execute_transaction", Err(TokenTransferFailed))
    /\ stack # <<>>
    /\ \E id \in DOMAIN tx_store : ~tx_store[id].executed /\ ~InFlight(id)

\* ------------------------------------------------------------------ C18
\* C18: whenever a config exists its owners are non-empty and pairwise
\* distinct and 1 <= required_approvals <= |owners|; owners and
\* required_approvals are the arguments of the successful initialize and no
\* later call changes them; is_owner(x) is true exactly for the members.
C18_Inv ==
    HasConfig =>
        /\ Config.owners # <<>>
        /\ \A i, j \in 1..Len(Config.owners) :
              Config.owners[i] = Config.owners[j] => i = j
        /\ 1 <= Config.required_approvals
        /\ Config.required_approvals <= Len(Config.owners)

C18_Step ==
    /\ HasConfig =>
          /\ HasConfig'
          /\ Config'.owners = Config.owners
          /\ Config'.required_approvals = Config.required_approvals
    /\ (~HasConfig /\ HasConfig') =>
          /\ call'.op = "initialize"
          /\ \E owners \in OwnerLists, t \in Thresholds :
                /\ initialize(owners, t)
                /\ Config'.owners = owners
                /\ Config'.required_approvals = t
    /\ (HasConfig /\ call'.op = "is_owner") =>
          \A x \in Addresses :
              is_owner(x) =>
                  call'.res = OkWith(\E i \in 1..Len(Config.owners) : Config.owners[i] = x)

C18_ConfigInvariant == []C18_Inv /\ [][C18_Step]_vars

\* is_owner has answered false for the address left out of a one-owner
\* config, after a submission has been stored
C18_Witness ==
    /\ HasConfig
    /\ Returned("is_owner", OkWith(FALSE))
    /\ Config.transaction_count = 1

\* ------------------------------------------------------------------ C19
\* C19: a failed transfer leaves the transaction executable (executed = false,
\* approvals >= required_approvals, execute_transaction by any owner reaches
\* the transfer again); under SpecLive every transaction whose approvals have
\* reached required_approvals eventually is executed with its transfer done.
C19_Retryable ==
    ( /\ stack # <<>>
      /\ call'.op = "execute_transaction"
      /\ call'.res.kind = "err"
      /\ call'.res.v = TokenTransferFailed ) =>
        \A id \in TxIds :
            stack[Len(stack)].transaction_id = id =>
                /\ ~tx_store'[id].executed
                /\ tx_store'[id].approvals >= Config'.required_approvals
                /\ \A caller \in Addresses :
                      IsOwner(caller)' => execute_result(caller, id)' = InTransfer

C19_Ready(id) ==
    /\ Has(tx_store, id)
    /\ HasConfig
    /\ tx_store[id].approvals >= Config.required_approvals

C19_Done(id) ==
    /\ Has(tx_store, id)
    /\ tx_store[id].executed
    /\ ~InFlight(id)
    /\ TransferCount(id) = 1

\* once reached, Ready and Done are kept by every step, so "Ready leads to
\* Done" for every id is the same as "from some point on, Ready implies Done"
C19_Stable ==
    \A id \in 1..MaxTx :
        /\ C19_Ready(id) => C19_Ready(id)'
        /\ C19_Done(id) => C19_Done(id)'

C19_EventuallyExecuted ==
    /\ [][C19_Retryable /\ C19_Stable]_vars
    /\ <>[](\A id \in 1..MaxTx : C19_Ready(id) => C19_Done(id))

\* a transfer has just failed and every owner of a two-owner config can start
\* it again
C19_Witness ==
    /\ Returned("execute_transaction", Err(TokenTransferFailed))
    /\ stack = <<>>
    /\ Len(Config.owners) = 2
    /\ \E id \in DOMAIN tx_store :
          /\ C19_Ready(id) /\ TransferCount(id) = 0
          /\ \A caller \in Addresses : execute_result(caller, id) = InTransfer

\* ------------------------------------------------------------------ C20
\* C20: a transaction record and its approval set exist for id exactly when
\* 1 <= id <= transaction_count; transaction_count never decreases; a
\* successful submit_transaction returns an id that was never used; and after
\* each single write of submit_transaction no record has an id above the
\* stored counter.
C20_Count == IF HasConfig THEN Config.transaction_count ELSE 0

C20_Dense ==
    /\ DOMAIN tx_store = 1..C20_Count
    /\ DOMAIN approval_store = 1..C20_Count

C20_Bounded(store) ==
    \A id \in (DOMAIN store.tx) \cup (DOMAIN store.approval) :
        store.config # <<>> /\ id <= store.config[1].transaction_count

C20_WriteOrder ==
    \A caller \in Addresses, r \in Requests :
        submit_result(caller, r.to, r.amount, r.token).kind = "ok" =>
            LET ws == submit_writes(caller, r.to, r.amount, r.token, r.data,
                                    submit_result(caller, r.to, r.amount, r.token).v)
            IN \A k \in 0..Len(ws) : C20_Bounded(WriteAll(Persistent, ws, k))

C20_Step ==
    /\ HasConfig => HasConfig' /\ Config'.transaction_count >= Config.transaction_count
    /\ (call'.op = "submit_transaction" /\ call'.res.kind = "ok") =>
          /\ call'.res.v = Config.transaction_count + 1
          /\ call'.res.v = Config'.transaction_count
          /\ ~Has(tx_store, call'.res.v) /\ ~Has(approval_store, call'.res.v)
          /\ Has(tx_store', call'.res.v) /\ Has(approval_store', call'.res.v)

C20_DenseIds == [](C20_Dense /\ C20_WriteOrder) /\ [][C20_Step]_vars

\* both ids are in use and the first one stays in place after its execution
C20_Witness ==
    /\ HasConfig /\ Config.transaction_count = 2
    /\ DOMAIN tx_store = {1, 2}
    /\ DOMAIN approval_store = {1, 2}
    /\ TransferCount(1) = 1 /\ tx_store[1].executed

\* ------------------------------------------------------------------ C21
\* The contract when its counter has come to the top of the u32 range.  Of
\* the records only those with the two highest ids are held: a call reads and
\* writes no record but the one whose id it is given or the one it creates,
\* and the calls made here name the two highest ids and 0.
TopIds == {0, U32_MAX - 1, U32_MAX}

InitOverflow ==
    \E owners \in OwnerLists, t \in Thresholds,
       transaction_count \in {U32_MAX - 1, U32_MAX},
       submitter \in Addresses :
        LET ids == IF transaction_count = U32_MAX
                   THEN {U32_MAX - 1, U32_MAX} ELSE {U32_MAX - 1}
        IN /\ ValidInit(owners, t)
           /\ Contains(owners, submitter)
           /\ config_store = <<MultisigConfig(owners, t, transaction_count)>>
           /\ tx_store = [id \in ids |-> Transaction(4, 5, 6, 7, FALSE, 1, submitter)]
           /\ approval_store = [id \in ids |-> <<submitter>>]
           /\ stack = <<>>
           /\ call = CallRec("none", Ok(0))
           /\ transfers = <<>>

NextOverflow ==
    \/ \E owners \in OwnerLists, t \in Thresholds : initialize(owners, t)
    \/ \E caller \in Addresses, r \in Requests :
          submit_transaction(caller, r.to, r.amount, r.token, r.data)
    \/ \E caller \in Addresses, id \in TopIds :
          approve_transaction(caller, id)
    \/ \E caller \in Addresses, id \in TopIds :
          execute_transaction(caller, id)
    \/ \E ok \in BOOLEAN : transfer_return(ok)
    \/ \E caller \in Addresses, id \in TopIds : get_transaction(caller, id)
    \/ \E caller \in Addresses, id \in TopIds : get_approvals(caller, id)
    \/ \E address \in Addresses : is_owner(address)

SpecOverflow == InitOverflow /\ [][NextOverflow]_vars

\* C21: with transaction_count at u32::MAX, submit_transaction by an owner
\* with a valid amount returns ArithmeticError and changes nothing: the
\* counter keeps its value on every step (it never wraps to 0) and no record
\* or approval set is created or overwritten.  The increment of approvals in
\* approve_transaction is the same checked add: it is an error at u32::MAX
\* and the exact sum below it, never a wrapped value.
C21_Submit ==
    (call'.op = "submit_transaction" /\ Config.transaction_count = U32_MAX) =>
        \A caller \in Addresses, r \in Requests :
            ( /\ IsOwner(caller)
              /\ r.amount > 0
              /\ submit_transaction(caller, r.to, r.amount, r.token, r.data) )
            => /\ call'.res = Err(ArithmeticError)
               /\ UNCHANGED <<Store, stack, transfers>>

C21_Kept ==
    /\ HasConfig'
    /\ Config.transaction_count = U32_MAX => Config'.transaction_count = U32_MAX
    /\ Config'.transaction_count # 0
    /\ \A id \in DOMAIN tx_store :
          /\ Has(tx_store', id) /\ Has(approval_store', id)
          /\ tx_store'[id].submitter = tx_store[id].submitter
          /\ tx_store'[id].approvals >= tx_store[id].approvals
          /\ SubSeq(approval_store'[id], 1, Len(approval_store[id])) = approval_store[id]

C21_CheckedAdd ==
    /\ checked_add(U32_MAX, 1) = Err(ArithmeticError)
    /\ checked_add(U32_MAX - 1, 1) = Ok(U32_MAX)
    /\ \A id \in DOMAIN tx_store :
          checked_add(tx_store[id].approvals, 1) = Ok(tx_store[id].approvals + 1)

C21_NoWrap == []C21_CheckedAdd /\ [][C21_Submit /\ C21_Kept]_vars

\* a submission was turned away with ArithmeticError at the top of the range,
\* the records of the two highest ids in place
C21_Witness ==
    /\ Returned("submit_transaction", Err(ArithmeticError))
    /\ Config.transaction_count = U32_MAX
    /\ DOMAIN tx_store = {U32_MAX - 1, U32_MAX}
    /\ DOMAIN approval_store = {U32_MAX - 1, U32_MAX}

\* ------------------------------------------------------------------ C22
\* C22 as stated: get_approvals by an owner for an id that has no stored
\* approval set returns the empty sequence.
C22_OriginalStep ==
    call'.op = "get_approvals" =>
        \A caller \in Addresses, id \in TxIds :
            ( /\ IsOwner(caller)
              /\ ~Has(approval_store, id)
              /\ get_approvals(caller, id) )
            => call'.res = OkWith(<<>>)

C22_DefaultsToEmpty == [][C22_OriginalStep]_vars

\* C22 as amended: get_approvals by an owner for an id that has no stored
\* approval set returns TransactionNotFound; for an id that has one it returns
\* the stored sequence, which is never empty; the state is unchanged.
C22_AmendedStep ==
    call'.op = "get_approvals" =>
        \A caller \in Addresses, id \in TxIds :
            (IsOwner(caller) /\ get_approvals(caller, id)) =>
                /\ call'.res = IF Has(approval_store, id)
                               THEN OkWith(approval_store[id])
                               ELSE Err(TransactionNotFound)
                /\ Has(approval_store, id) => approval_store[id] # <<>>
                /\ UNCHANGED <<Store, stack, transfers>>

C22_AbsentIsNotFound == [][C22_AmendedStep]_vars

\* an owner asked for the approvals of an id that was never issued while
\* another id holds a record
C22_Witness ==
    /\ Returned("get_approvals", Err(TransactionNotFound))
    /\ HasConfig
    /\ DOMAIN approval_store = {1}

\* ------------------------------------------------------------------ C23
\* The calls both contract variants have (initialize, submit_transaction and
\* approve_transaction), made on a contract just deployed and on one whose
\* counter has come to the top of the u32 range.  The contract at the top of
\* the range holds a record for every id from 1 to the counter; InitOverflow
\* keeps the records of the two highest ids only, so the calls made while the
\* counter is there name those ids and 0, which never has a record, and no id
\* whose record is left out.  Neither operation can bring the counter down, so
\* a behaviour that starts at the top stays there.
AtTop ==
    HasConfig /\ Config.transaction_count \in {U32_MAX - 1, U32_MAX}

VariantIds == IF AtTop THEN TopIds ELSE TxIds

InitVariants == Init \/ InitOverflow

NextVariants ==
    \/ \E owners \in OwnerLists, t \in Thresholds : initialize(owners, t)
    \/ \E caller \in Addresses, r \in Requests :
          submit_transaction(caller, r.to, r.amount, r.token, r.data)
    \/ \E caller \in Addresses, id \in VariantIds :
          approve_transaction(caller, id)

SpecVariants == InitVariants /\ [][NextVariants]_vars

\* the richer variant's store as the simpler variant holds it: the records
\* without token and submitter
Shared(transaction) ==
    simple_Transaction(transaction.to, transaction.amount, transaction.data,
                       transaction.executed, transaction.approvals)

Projected ==
    [config |-> config_store,
     tx |-> [id \in DOMAIN tx_store |-> Shared(tx_store[id])],
     approval |-> approval_store]

\* C23 as stated: on every initialize, submit_transaction and
\* approve_transaction call the simpler variant, started from the same store
\* and given the same caller and arguments, returns what the richer variant
\* returns and leaves the same owners, required_approvals, transaction_count,
\* records (to, amount, data, executed, approvals) and approval sets.
C23_OriginalStep ==
    /\ call'.op = "initialize" =>
          \A owners \in OwnerLists, t \in Thresholds :
              initialize(owners, t) =>
                  simple_initialize(Projected, owners, t)
                      = [res |-> call'.res, store |-> Projected']
    /\ call'.op = "submit_transaction" =>
          \A caller \in Addresses, r \in Requests :
              submit_transaction(caller, r.to, r.amount, r.token, r.data) =>
                  simple_submit_transaction(Projected, caller, r.to, r.amount, r.data)
                      = [res |-> call'.res, store |-> Projected']
    /\ call'.op = "approve_transaction" =>
          \A caller \in Addresses, id \in VariantIds :
              approve_transaction(caller, id) =>
                  simple_approve_transaction(Projected, caller, id)
                      = [res |-> call'.res, store |-> Projected']

C23_VariantsAgree == [][C23_OriginalStep]_vars

\* C23 as amended: the two variants agree on every call, in result and in the
\* store they leave, but for two checks the simpler variant does not make.
\* initialize on an initialized contract returns AlreadyInitialized in the
\* richer variant and panics in the simpler one, the store unchanged in both.
\* submit_transaction by an owner with amount <= 0 returns InvalidAmount in
\* the richer variant, which stores nothing; the simpler one treats it as it
\* treats any amount: below u32::MAX it succeeds and stores the record and
\* the incremented counter, at u32::MAX it returns ArithmeticError and stores
\* nothing.
C23_InitializeStep ==
    call'.op = "initialize" =>
        LET store == Projected IN
        IF HasConfig
        THEN /\ call'.res = Err(AlreadyInitialized)
             /\ Projected' = store
             /\ \A owners \in OwnerLists, t \in Thresholds :
                   simple_initialize(store, owners, t) = [res |-> Panic, store |-> store]
        ELSE \A owners \in OwnerLists, t \in Thresholds :
                 initialize(owners, t) =>
                     simple_initialize(store, owners, t)
                         = [res |-> call'.res, store |-> Projected']

C23_SubmitStep ==
    call'.op = "submit_transaction" =>
        \A caller \in Addresses, r \in Requests :
            submit_transaction(caller, r.to, r.amount, r.token, r.data) =>
                LET simple == simple_submit_transaction(Projected, caller,
                                                        r.to, r.amount, r.data)
                IN IF IsOwner(caller) /\ r.amount <= 0
                   THEN /\ call'.res = Err(InvalidAmount)
                        /\ Projected' = Projected
                        /\ IF Config.transaction_count = U32_MAX
                           THEN /\ simple.res = Err(ArithmeticError)
                                /\ simple.store = Projected
                           ELSE /\ simple.res = Ok(Config.transaction_count + 1)
                                /\ simple.store.config[1].transaction_count
                                       = Config.transaction_count + 1
                                /\ simple.store.tx[Config.transaction_count + 1]
                                       = simple_Transaction(r.to, r.amount, r.data, FALSE, 1)
                                /\ simple.store.approval[Config.transaction_count + 1]
                                       = <<caller>>
                   ELSE simple = [res |-> call'.res, store |-> Projected']

C23_ApproveStep ==
    call'.op = "approve_transaction" =>
        \A caller \in Addresses, id \in VariantIds :
            approve_transaction(caller, id) =>
                simple_approve_transaction(Projected, caller, id)
                    = [res |-> call'.res, store |-> Projected']

C23_VariantsAgreeButInitAndAmount ==
    [][C23_InitializeStep /\ C23_SubmitStep /\ C23_ApproveStep]_vars

\* at the top of the range a submission with a bad amount was turned away
\* with InvalidAmount by the richer variant; the simpler one turns it away
\* with ArithmeticError, and both had accepted an approval before
C23_Witness ==
    /\ Returned("submit_transaction", Err(InvalidAmount))
    /\ HasConfig /\ Config.transaction_count = U32_MAX
    /\ \E id \in DOMAIN tx_store : Projected.tx[id].approvals = 2
    /\ \A caller \in Addresses : \A r \in Requests :
          IsOwner(caller) =>
              simple_submit_transaction(Projected, caller, r.to, r.amount, r.data)
                  = [res |-> Err(ArithmeticError), store |-> Projected]

====
